---- MODULE Spec2Model ----
(***************************************************************************)
(* Document pagination and tool-command session store of the streamlit    *)
(* teaching assistant: the document_loader and page_reader tools acting   *)
(* on st.session_state, the sidebar file uploader that fills the upload   *)
(* registry, and the temporary files the loader creates on disk; the      *)
(* voice_control tool and the sidebar's Voice tab acting on voice_config; *)
(* call_model's retry loop and the agent/tools workflow graph; the script *)
(* run's session keys, inactivity checks and chat turn.                   *)
(*                                                                         *)
(* Python strings are TLA+ strings; a character is a string of length 1.  *)
(* st.session_state is a function from key names to values, so that       *)
(* "key in st.session_state" is membership in its DOMAIN.                 *)
(***************************************************************************)
EXTENDS Integers, Sequences, FiniteSets, TLC

VARIABLES
    session_state,  \* st.session_state: keys uploaded_files, document_store
    temp_files,     \* paths of the temporary files that exist on disk
    call,           \* the last operation: [tool, input]
    ret,            \* what it gave its caller: [raised, value]
    temp_path,      \* the temporary file the last load created (0: none)
    loader,         \* the parser the last load dispatched to
    next_calls,     \* next_page calls in a row since a successful load (-1: other history)
    voice_config,   \* st.session_state.voice_config
    node,           \* the workflow node that runs: "start", "agent", "tools", "end"
    messages,       \* the workflow's state["messages"]
    agent_steps,    \* times the agent node has been entered
    pc,             \* call_model: "idle", "loop" (in the while loop), "returned"
    retry_count,    \* call_model's retry_count
    backoff_time,   \* call_model's backoff_time
    invocations,    \* times call_model has awaited model.ainvoke in this run of the node
    sleeps,         \* the durations call_model has slept in this run of the node
    now,            \* what time.time() gives, in seconds
    rerun,          \* st.experimental_rerun() has stopped the last script run
    handed          \* the message list the last chat turn handed to the workflow

doc_vars == <<session_state, temp_files, temp_path, loader, next_calls>>
workflow_vars ==
    <<node, messages, agent_steps, pc, retry_count, backoff_time, invocations, sleeps>>

script_vars == <<now, rerun, handed>>

vars == <<session_state, temp_files, call, ret, temp_path, loader, next_calls, voice_config,
          node, messages, agent_steps, pc, retry_count, backoff_time, invocations, sleeps,
          now, rerun, handed>>

-----------------------------------------------------------------------------
(* Bounds *)

MaxUploads == 2     \* files selected in the uploader at once
MaxTemp == 2        \* temporary files that may pile up on disk
MaxNextCalls == 4   \* next_page calls in a row that are counted
MaxAgentSteps == 3  \* runs of the agent node in one run of the workflow
MaxToolCalls == 2   \* tool calls in one response of the model
MaxMessages == 4    \* messages in the chat history
MaxTime == 2500     \* seconds on the clock

-----------------------------------------------------------------------------
(* str methods and library functions the tools call *)

Char(s, i) == SubSeq(s, i, i)

UpperCase == "ABCDEFGHIJKLMNOPQRSTUVWXYZ"
LowerCase == "abcdefghijklmnopqrstuvwxyz"
Digits == "0123456789"

\* position of character c in alphabet a, 0 when absent
IndexIn(a, c) ==
    IF \E i \in 1..Len(a) : Char(a, i) = c
    THEN CHOOSE i \in 1..Len(a) : Char(a, i) = c
    ELSE 0

\* the case mappings of the ASCII letters
LowerMap == [c \in {Char(UpperCase, i) : i \in 1..26} |-> Char(LowerCase, IndexIn(UpperCase, c))]
UpperMap == [c \in {Char(LowerCase, i) : i \in 1..26} |-> Char(UpperCase, IndexIn(LowerCase, c))]

LowerChar(c) == IF c \in DOMAIN LowerMap THEN LowerMap[c] ELSE c
UpperChar(c) == IF c \in DOMAIN UpperMap THEN UpperMap[c] ELSE c

RECURSIVE Lower(_)
Lower(s) == IF Len(s) = 0 THEN "" ELSE LowerChar(Head(s)) \o Lower(Tail(s))

RECURSIVE Upper(_)
Upper(s) == IF Len(s) = 0 THEN "" ELSE UpperChar(Head(s)) \o Upper(Tail(s))

StartsWith(s, prefix) == Len(s) >= Len(prefix) /\ SubSeq(s, 1, Len(prefix)) = prefix

\* str.rfind(c) + 1: the last position of c in s, 0 when absent
RFind(s, c) ==
    IF \E i \in 1..Len(s) : Char(s, i) = c
    THEN CHOOSE i \in 1..Len(s) : Char(s, i) = c /\ \A j \in (i+1)..Len(s) : Char(s, j) # c
    ELSE 0

\* str.find(c, from) + 1: the first position of c at or after from, 0 when absent
Find(s, c, from) ==
    IF \E i \in from..Len(s) : Char(s, i) = c
    THEN CHOOSE i \in from..Len(s) : Char(s, i) = c /\ \A j \in from..(i-1) : Char(s, j) # c
    ELSE 0

\* command.split(':')[1]: the text between the first colon and the next one
\* (the callers have checked that s holds a colon)
SplitColon1(s) ==
    LET a == Find(s, ":", 1)
        b == Find(s, ":", a + 1)
    IN  IF b = 0 THEN SubSeq(s, a + 1, Len(s)) ELSE SubSeq(s, a + 1, b - 1)

\* os.path.splitext(p): <<root, ext>>; the extension starts at the last dot
\* of the last path component unless that component has only leading dots
SplitExt(p) ==
    LET sepIndex == RFind(p, "/")
        dotIndex == RFind(p, ".")
    IN  IF dotIndex > sepIndex
           /\ \E k \in (sepIndex + 1)..(dotIndex - 1) : Char(p, k) # "."
        THEN <<SubSeq(p, 1, dotIndex - 1), SubSeq(p, dotIndex, Len(p))>>
        ELSE <<p, "">>

\* str(n) for an int
RECURSIVE NatToStr(_)
NatToStr(n) ==
    IF n < 10 THEN Char(Digits, n + 1)
    ELSE NatToStr(n \div 10) \o Char(Digits, (n % 10) + 1)

IntToStr(n) == IF n < 0 THEN "-" \o NatToStr(0 - n) ELSE NatToStr(n)

Whitespace == {" ", "\t", "\n"}

RECURSIVE LStrip(_)
LStrip(s) == IF Len(s) > 0 /\ Head(s) \in Whitespace THEN LStrip(Tail(s)) ELSE s

RECURSIVE RStrip(_)
RStrip(s) ==
    IF Len(s) > 0 /\ Char(s, Len(s)) \in Whitespace
    THEN RStrip(SubSeq(s, 1, Len(s) - 1))
    ELSE s

Strip(s) == RStrip(LStrip(s))

\* value of a string of digits and underscores, underscores skipped
RECURSIVE DigitsValue(_)
DigitsValue(s) ==
    IF Len(s) = 0 THEN 0
    ELSE IF Char(s, Len(s)) = "_" THEN DigitsValue(SubSeq(s, 1, Len(s) - 1))
    ELSE 10 * DigitsValue(SubSeq(s, 1, Len(s) - 1)) + (IndexIn(Digits, Char(s, Len(s))) - 1)

\* int literal body: digits, single underscores only between digits
IsDigits(s) ==
    /\ Len(s) > 0
    /\ \A i \in 1..Len(s) : IndexIn(Digits, Char(s, i)) > 0 \/ Char(s, i) = "_"
    /\ Char(s, 1) # "_"
    /\ Char(s, Len(s)) # "_"
    /\ \A i \in 1..(Len(s) - 1) : ~(Char(s, i) = "_" /\ Char(s, i + 1) = "_")

\* int(s): [ok |-> FALSE] is ValueError
ParseInt(s) ==
    LET t == Strip(s)
        signed == Len(t) > 0 /\ Head(t) \in {"+", "-"}
        body == IF signed THEN Tail(t) ELSE t
    IN  IF IsDigits(body)
        THEN [ok |-> TRUE,
              val |-> IF signed /\ Head(t) = "-" THEN 0 - DigitsValue(body) ELSE DigitsValue(body)]
        ELSE [ok |-> FALSE, val |-> 0]

-----------------------------------------------------------------------------
(* Uploaded files.  An upload is its name and its bytes; the bytes are     *)
(* abstracted to what the parsers make of them: whether they can be       *)
(* parsed or decoded at all (and the error raised if not), and the        *)
(* ordered units of content (pdf pages, csv records, lines of text).      *)

File(name, ok, units, err) == [name |-> name, ok |-> ok, units |-> units, err |-> err]

csv3 == File("d.csv", TRUE, <<"x: 1", "x: 2", "x: 3">>, "")
csv0 == File("d.csv", TRUE, <<>>, "")
pdf2 == File("b.PDF", TRUE, <<"r1", "r2">>, "")
txt1 == File("c.Txt", TRUE, <<"hel", "lo">>, "")
docx1 == File("f.docx", TRUE, <<"w1", "w2">>, "")
md1 == File("g.md", TRUE, <<"m1">>, "")
badtxt == File("h.txt", FALSE, <<>>, "'utf-8' codec can't decode byte 0xff")
badpdf == File("i.pdf", FALSE, <<>>, "EOF marker not found")

\* selections of files the user makes in the uploader, in the widget's order
Selections == {
    << >>,
    <<csv3>>,
    <<csv3, csv0>>,
    <<csv0, csv3>>,
    <<pdf2, md1>>,
    <<txt1, badtxt>>,
    <<docx1, badpdf>>,
    <<csv3, pdf2, badtxt>>,
    <<md1, txt1, badpdf>>
}

\* what the uploader widget can return: up to MaxUploads files
UploadLists == {files \in Selections : Len(files) <= MaxUploads}

Files == UNION {{files[i] : i \in 1..Len(files)} : files \in Selections}

\* names the agent may pass to document_loader
DocumentNames == {f.name : f \in Files} \cup {"D.CSV", "zz.pdf"}

RECURSIVE Concat(_)
Concat(units) == IF units = <<>> THEN "" ELSE Head(units) \o Concat(Tail(units))

-----------------------------------------------------------------------------
(* The format-specific parsers (external libraries), by what they return  *)
(* to the loader: a list of Documents, here the list of their             *)
(* page_content, or an exception.                                         *)

Raise(msg) == [exc |-> TRUE, err |-> msg, docs |-> <<>>]
Docs(d) == [exc |-> FALSE, err |-> "", docs |-> d]

\* PyPDFLoader(temp_path).load(): one Document per physical page
PyPDFLoader(file) == IF file.ok THEN Docs(file.units) ELSE Raise(file.err)

\* Docx2txtLoader(temp_path).load(): the whole text as a single Document
Docx2txtLoader(file) == IF file.ok THEN Docs(<<Concat(file.units)>>) ELSE Raise(file.err)

\* CSVLoader(temp_path).load(): one Document per record
CSVLoader(file) == IF file.ok THEN Docs(file.units) ELSE Raise(file.err)

\* open(temp_path, 'r', encoding='utf-8').read() wrapped in one Document
ReadText(file) == IF file.ok THEN Docs(<<Concat(file.units)>>) ELSE Raise(file.err)

-----------------------------------------------------------------------------
(* document_loader *)

NoFilesMsg == "Error: No files have been uploaded. Please upload a file first."

NotFoundMsg(document_name) ==
    "Error: File \"" \o document_name \o "\" not found. Please check the filename and try again."

UnsupportedMsg(file_ext) ==
    "Error: Unsupported file format \"" \o file_ext
        \o "\". Supported formats are PDF, DOCX, CSV, and TXT."

LoadedMsg(store) ==
    "Successfully loaded " \o store.document_name \o " with " \o IntToStr(store.total_pages)
        \o " pages. You can now use the page_reader tool to explore the document page by page."
        \o " Start with \"read_current_page\" to view the first page."

LoadErrorMsg(err) == "Error loading document: " \o err

EmptyStore ==
    [document_pages |-> <<>>, current_page_index |-> 0, total_pages |-> 0, document_name |-> ""]

HasKey(ss, key) == key \in DOMAIN ss

\* st.session_state[key] = value
SetKey(ss, key, value) == [k \in DOMAIN ss \cup {key} |-> IF k = key THEN value ELSE ss[k]]

\* variant: the extension is compared as written
FileExtAsWritten(name) == SplitExt(name)[2]

\* the file extension the dispatch is made on
FileExt(name) == Lower(SplitExt(name)[2])

\* the if/elif chain on file_ext: the loader used and what it returns
RunLoader(file_ext, file) ==
    IF file_ext = ".pdf" THEN [loader |-> "PyPDFLoader", supported |-> TRUE, out |-> PyPDFLoader(file)]
    ELSE IF file_ext \in {".docx", ".doc"}
        THEN [loader |-> "Docx2txtLoader", supported |-> TRUE, out |-> Docx2txtLoader(file)]
    ELSE IF file_ext = ".csv" THEN [loader |-> "CSVLoader", supported |-> TRUE, out |-> CSVLoader(file)]
    ELSE IF file_ext = ".txt" THEN [loader |-> "open", supported |-> TRUE, out |-> ReadText(file)]
    ELSE [loader |-> "none", supported |-> FALSE, out |-> Docs(<<>>)]

\* variant: total_pages is not updated
StoreAfterLoadStaleTotal(store, docs, name) ==
    [store EXCEPT !.document_pages = docs,
                  !.current_page_index = 0,
                  !.document_name = name]

\* variant: current_page_index is not reset
StoreAfterLoadKeepIndex(store, docs, name) ==
    [store EXCEPT !.document_pages = docs,
                  !.total_pages = Len(docs),
                  !.document_name = name]

\* the four assignments to the document store
StoreAfterLoad(store, docs, name) ==
    [store EXCEPT !.document_pages = docs,
                  !.current_page_index = 0,
                  !.total_pages = Len(docs),
                  !.document_name = name]

\* tempfile.NamedTemporaryFile(delete=False): a path that does not exist yet
NewTempPath(tf) == CHOOSE p \in 1..(MaxTemp + 1) : p \notin tf /\ \A q \in 1..(p - 1) : q \in tf

\* variant: names are matched without regard to case
FindUploadIgnoreCase(uploaded_files, document_name) ==
    IF \E i \in 1..Len(uploaded_files) : Lower(uploaded_files[i].name) = Lower(document_name)
    THEN CHOOSE i \in 1..Len(uploaded_files) :
            /\ Lower(uploaded_files[i].name) = Lower(document_name)
            /\ \A j \in 1..(i - 1) : Lower(uploaded_files[j].name) # Lower(document_name)
    ELSE 0

\* the first upload with the requested name, 0 when there is none
FindUpload(uploaded_files, document_name) ==
    IF \E i \in 1..Len(uploaded_files) : uploaded_files[i].name = document_name
    THEN CHOOSE i \in 1..Len(uploaded_files) :
            /\ uploaded_files[i].name = document_name
            /\ \A j \in 1..(i - 1) : uploaded_files[j].name # document_name
    ELSE 0

\* the outcome of a try body: what it returns or the exception it raises,
\* with the session state and the disk as it leaves them
Outcome(ss, tf, exc, value, path, ld) ==
    [ss |-> ss, tf |-> tf, exc |-> exc, value |-> value, temp_path |-> path, loader |-> ld]

\* variant: the store is assigned before the parser has returned
LoadFoundAssignFirst(ss, tf, uploaded_file) ==
    LET path == NewTempPath(tf)
        written == tf \cup {path}
        file_ext == FileExt(uploaded_file.name)
        run == RunLoader(file_ext, uploaded_file)
        store == StoreAfterLoad(ss.document_store, run.out.docs, uploaded_file.name)
    IN  IF ~run.supported
            THEN Outcome(ss, written \ {path}, FALSE, UnsupportedMsg(file_ext), path, run.loader)
        ELSE IF run.out.exc
            THEN Outcome(SetKey(ss, "document_store", store), written, TRUE, run.out.err,
                         path, run.loader)
        ELSE Outcome(SetKey(ss, "document_store", store), written \ {path}, FALSE,
                     LoadedMsg(store), path, run.loader)

\* the loop body for the matching upload
LoadFound(ss, tf, uploaded_file) ==
    LET path == NewTempPath(tf)
        written == tf \cup {path}
        file_ext == FileExt(uploaded_file.name)
        run == RunLoader(file_ext, uploaded_file)
        store == StoreAfterLoad(ss.document_store, run.out.docs, uploaded_file.name)
    IN  IF ~run.supported
            THEN Outcome(ss, written \ {path}, FALSE, UnsupportedMsg(file_ext), path, run.loader)
        ELSE IF run.out.exc
            THEN Outcome(ss, written, TRUE, run.out.err, path, run.loader)
        ELSE Outcome(SetKey(ss, "document_store", store), written \ {path}, FALSE,
                     LoadedMsg(store), path, run.loader)

\* the try body of DocumentLoadTool._run
TryLoad(ss, tf, document_name) ==
    IF ~HasKey(ss, "uploaded_files") \/ ss.uploaded_files = <<>>
    THEN Outcome(ss, tf, FALSE, NoFilesMsg, 0, "none")
    ELSE LET ss1 == IF HasKey(ss, "document_store") THEN ss
                    ELSE SetKey(ss, "document_store", EmptyStore)
             i == FindUpload(ss.uploaded_files, document_name)
         IN  IF i = 0
             THEN Outcome(ss1, tf, FALSE, NotFoundMsg(document_name), 0, "none")
             ELSE LoadFound(ss1, tf, ss.uploaded_files[i])

\* except Exception as error: return the message
LoadExcept(outcome) ==
    IF outcome.exc
    THEN [outcome EXCEPT !.exc = FALSE, !.value = LoadErrorMsg(outcome.value)]
    ELSE outcome

DocumentLoadTool_run(ss, tf, document_name) == LoadExcept(TryLoad(ss, tf, document_name))

-----------------------------------------------------------------------------
(* page_reader *)

NoStoreMsg == "No document store initialized. Please use the document_loader tool first."

NoDocumentMsg == "No document is currently loaded. Please use the document_loader tool first."

LastPageMsg(store) ==
    "You are already at the last page (" \o IntToStr(store.total_pages) \o ") of the document."

FirstPageMsg == "You are already at the first page of the document."

InvalidPageMsg(store) ==
    "Invalid page number. Please specify a page between 1 and "
        \o IntToStr(store.total_pages) \o "."

InvalidFormatMsg == "Invalid page number format. Please use 'go_to_page:X' where X is a number."

UnknownCommandMsg(command) ==
    "Unknown command: \"" \o command \o "\". Valid commands are: 'read_current_page', "
        \o "'next_page', 'previous_page', 'go_to_page:{number}', 'document_summary', 'page_count'."

ReadErrorMsg(err) == "Error reading page: " \o err

\* the f-string of a page: 1-based number, total, name, content
FormatPage(store, page_content) ==
    "[Page " \o IntToStr(store.current_page_index + 1) \o "/" \o IntToStr(store.total_pages)
        \o " of \"" \o store.document_name \o "\"]\n\n" \o page_content

\* a branch of the reader: the store as it leaves it and what it returns or raises
Reply(store, value) == [store |-> store, exc |-> FALSE, value |-> value]
Raised(store, err) == [store |-> store, exc |-> TRUE, value |-> err]

\* document_pages[current_page_index] formatted; a list index counts from
\* the end when negative and raises IndexError outside -len..len-1
CurrentPage(store) ==
    LET pages == store.document_pages
        i == store.current_page_index
    IN  IF 0 <= i /\ i < Len(pages) THEN Reply(store, FormatPage(store, pages[i + 1]))
        ELSE IF 0 - Len(pages) <= i /\ i < 0
            THEN Reply(store, FormatPage(store, pages[Len(pages) + i + 1]))
        ELSE Raised(store, "list index out of range")

ReadCurrentPage(store) == CurrentPage(store)

\* variant: the guard lets the index reach total_pages
NextPageOffByOne(store) ==
    IF store.current_page_index < store.total_pages
    THEN CurrentPage([store EXCEPT !.current_page_index = @ + 1])
    ELSE Reply(store, LastPageMsg(store))

\* variant: the page is read before the index is advanced
NextPageReadsFirst(store) ==
    IF store.current_page_index < store.total_pages - 1
    THEN [CurrentPage(store) EXCEPT !.store = [store EXCEPT !.current_page_index = @ + 1]]
    ELSE Reply(store, LastPageMsg(store))

\* variant: the guard takes the index as one-based
NextPageOneBased(store) ==
    IF store.current_page_index + 1 < store.total_pages - 1
    THEN CurrentPage([store EXCEPT !.current_page_index = @ + 1])
    ELSE Reply(store, LastPageMsg(store))

NextPage(store) ==
    IF store.current_page_index < store.total_pages - 1
    THEN CurrentPage([store EXCEPT !.current_page_index = @ + 1])
    ELSE Reply(store, LastPageMsg(store))

\* variant: the guard lets the index go below 0
PreviousPageBelowZero(store) ==
    IF store.current_page_index >= 0
    THEN CurrentPage([store EXCEPT !.current_page_index = @ - 1])
    ELSE Reply(store, FirstPageMsg)

PreviousPage(store) ==
    IF store.current_page_index > 0
    THEN CurrentPage([store EXCEPT !.current_page_index = @ - 1])
    ELSE Reply(store, FirstPageMsg)

\* variant: the range check takes the page number as zero-based
GoToPageZeroBased(store, command_lower) ==
    LET n == ParseInt(SplitColon1(command_lower))
    IN  IF ~n.ok THEN Reply(store, InvalidFormatMsg)
        ELSE IF n.val < 0 \/ n.val > store.total_pages THEN Reply(store, InvalidPageMsg(store))
        ELSE CurrentPage([store EXCEPT !.current_page_index = n.val - 1])

\* variant: the page number is taken as the index
GoToPageNoOffset(store, command_lower) ==
    LET n == ParseInt(SplitColon1(command_lower))
    IN  IF ~n.ok THEN Reply(store, InvalidFormatMsg)
        ELSE IF n.val < 1 \/ n.val > store.total_pages THEN Reply(store, InvalidPageMsg(store))
        ELSE CurrentPage([store EXCEPT !.current_page_index = n.val])

GoToPage(store, command_lower) ==
    LET n == ParseInt(SplitColon1(command_lower))
    IN  IF ~n.ok THEN Reply(store, InvalidFormatMsg)
        ELSE IF n.val < 1 \/ n.val > store.total_pages THEN Reply(store, InvalidPageMsg(store))
        ELSE CurrentPage([store EXCEPT !.current_page_index = n.val - 1])

DocumentSummary(store) ==
    LET ext == SplitExt(store.document_name)[2]
    IN  Reply(store,
              "Document Information:\n- Name: " \o store.document_name
                  \o "\n- Total Pages: " \o IntToStr(store.total_pages)
                  \o "\n- Current Page: " \o IntToStr(store.current_page_index + 1)
                  \o "\n- Format: " \o Upper(SubSeq(ext, 2, Len(ext))))

PageCount(store) ==
    Reply(store, "The document \"" \o store.document_name \o "\" contains "
                     \o IntToStr(store.total_pages) \o " pages.")

\* the if/elif chain on command_lower
Dispatch(store, command) ==
    LET command_lower == Lower(command)
    IN  IF command_lower = "read_current_page" THEN ReadCurrentPage(store)
        ELSE IF command_lower = "next_page" THEN NextPage(store)
        ELSE IF command_lower = "previous_page" THEN PreviousPage(store)
        ELSE IF StartsWith(command_lower, "go_to_page:") THEN GoToPage(store, command_lower)
        ELSE IF command_lower = "document_summary" THEN DocumentSummary(store)
        ELSE IF command_lower = "page_count" THEN PageCount(store)
        ELSE Reply(store, UnknownCommandMsg(command))

\* except Exception as error: return the message
ReadExcept(reply) ==
    IF reply.exc THEN [reply EXCEPT !.exc = FALSE, !.value = ReadErrorMsg(reply.value)]
    ELSE reply

\* variant: an empty document_pages is not looked for
PageReaderTool_runNoEmptyCheck(ss, command) ==
    IF ~HasKey(ss, "document_store") THEN [ss |-> ss, exc |-> FALSE, value |-> NoStoreMsg]
    ELSE LET r == ReadExcept(Dispatch(ss.document_store, command))
         IN  [ss |-> SetKey(ss, "document_store", r.store), exc |-> r.exc, value |-> r.value]

\* PageReaderTool._run: the session state as it leaves it and what it returns
PageReaderTool_run(ss, command) ==
    IF ~HasKey(ss, "document_store") THEN [ss |-> ss, exc |-> FALSE, value |-> NoStoreMsg]
    ELSE IF ss.document_store.document_pages = <<>>
        THEN [ss |-> ss, exc |-> FALSE, value |-> NoDocumentMsg]
    ELSE LET r == ReadExcept(Dispatch(ss.document_store, command))
         IN  [ss |-> SetKey(ss, "document_store", r.store), exc |-> r.exc, value |-> r.value]

\* commands the agent may pass to page_reader
Commands == {
    "read_current_page", "next_page", "NEXT_PAGE", "previous_page", "Previous_Page",
    "go_to_page:-1", "go_to_page:0", "go_to_page:1", "go_to_page:2", "go_to_page:3",
    "go_to_page:4", "Go_To_Page:2", "go_to_page:abc", "go_to_page:", "go_to_page:2:x",
    "go_to_page: 3 ", "go_to_page:2x",
    "document_summary", "page_count", "last_page"
}

-----------------------------------------------------------------------------
(* voice_config *)

\* available_voices in declaration order; the flag emoji that starts each
\* language key is written as its two letters, accented letters unaccented
available_voices == <<
    [language |-> "US English", male |-> <<"Matthew", "Stephen", "Kevin", "Gregory">>,
                                female |-> <<"Joanna", "Kendra", "Salli", "Ruth">>],
    [language |-> "ES Spanish", male |-> <<"Miguel", "Enrique">>, female |-> <<"Lupe", "Penelope">>],
    [language |-> "FR French", male |-> <<"Mathieu", "Remi">>, female |-> <<"Celine", "Lea">>],
    [language |-> "DE German", male |-> <<"Hans", "Daniel">>, female |-> <<"Marlene", "Vicki">>],
    [language |-> "IT Italian", male |-> <<"Giorgio", "Marco">>, female |-> <<"Bianca", "Carla">>],
    [language |-> "JP Japanese", male |-> <<"Takumi", "Kazuha">>, female |-> <<"Mizuki", "Haruka">>],
    [language |-> "KR Korean", male |-> <<"Seoyeon">>, female |-> <<"Seoyeon">>],
    [language |-> "IN Hindi", male |-> <<"Arjun">>, female |-> <<"Kajal">>]
>>

InitialVoiceConfig ==
    [enabled |-> TRUE, selected_voice |-> "Joanna", rate |-> "medium",
     current_language |-> "US English"]

\* list(available_voices.keys())
Languages == [i \in 1..Len(available_voices) |-> available_voices[i].language]

\* the elements of a list
Elements(list) == {list[i] : i \in 1..Len(list)}

\* available_voices[language]
VoicesOf(language) ==
    available_voices[CHOOSE i \in 1..Len(available_voices) : available_voices[i].language = language]

\* ', '.join(list)
RECURSIVE JoinComma(_)
JoinComma(list) ==
    IF list = <<>> THEN ""
    ELSE IF Len(list) = 1 THEN list[1]
    ELSE list[1] \o ", " \o JoinComma(Tail(list))

-----------------------------------------------------------------------------
(* voice_control *)

\* the loop of list_voices over the catalog from entry i on
RECURSIVE VoiceLines(_)
VoiceLines(i) ==
    IF i > Len(available_voices) THEN ""
    ELSE "\n" \o available_voices[i].language \o ":\n"
            \o "  Male: " \o JoinComma(available_voices[i].male) \o "\n"
            \o "  Female: " \o JoinComma(available_voices[i].female) \o "\n"
            \o VoiceLines(i + 1)

ListVoicesMsg(vc) ==
    "Available Amazon Polly Neural voices:\n" \o VoiceLines(1)
        \o "\nCurrently selected: " \o vc.selected_voice

ListLanguagesMsg == "Available languages: " \o JoinComma(Languages)

LanguageSetMsg(vc) ==
    "Language set to " \o vc.current_language \o ". Default voice set to "
        \o vc.selected_voice \o "."

LanguageNotFoundMsg(language_name) ==
    "Language \"" \o language_name \o "\" not found. Available languages: "
        \o JoinComma(Languages)

VoiceSetMsg(voice_name, voice_language) ==
    "Voice set to " \o voice_name \o " (" \o voice_language \o ")."

VoiceNotFoundMsg(voice_name) ==
    "Voice \"" \o voice_name \o "\" not found. Use 'list_voices' to see available voices."

VoiceStatusMsg(vc) ==
    "Voice output is currently " \o (IF vc.enabled THEN "enabled" ELSE "disabled") \o ".\n"
        \o "Selected voice: " \o vc.selected_voice \o "\n"
        \o "Current language: "
        \o (IF vc.current_language = "" THEN "Not set" ELSE vc.current_language)

UnknownVoiceCommandMsg(command) ==
    "Unknown command: \"" \o command \o "\". Valid commands are: 'list_voices', "
        \o "'list_languages', 'set_language:{language_name}', 'set_voice:{voice_name}', "
        \o "'enable_voice', 'disable_voice', 'voice_status'."

\* a branch of voice_control: voice_config as it leaves it and what it returns
VoiceReply(vc, value) == [vc |-> vc, exc |-> FALSE, value |-> value]

\* variant: the voice of the former language is kept
SetLanguageKeepsVoice(vc, command) ==
    LET language_name == Strip(SplitColon1(command))
    IN  IF language_name \in Elements(Languages)
        THEN LET set == [vc EXCEPT !.current_language = language_name]
             IN  VoiceReply(set, LanguageSetMsg(set))
        ELSE VoiceReply(vc, LanguageNotFoundMsg(language_name))

\* variant: the default voice is the first female one
SetLanguageFemaleFirst(vc, command) ==
    LET language_name == Strip(SplitColon1(command))
    IN  IF language_name \in Elements(Languages)
        THEN LET set == [vc EXCEPT !.current_language = language_name,
                                   !.selected_voice = VoicesOf(language_name).female[1]]
             IN  VoiceReply(set, LanguageSetMsg(set))
        ELSE VoiceReply(vc, LanguageNotFoundMsg(language_name))

\* set_language:<name>
SetLanguage(vc, command) ==
    LET language_name == Strip(SplitColon1(command))
    IN  IF language_name \in Elements(Languages)
        THEN LET set == [vc EXCEPT !.current_language = language_name,
                                   !.selected_voice = VoicesOf(language_name).male[1]]
             IN  VoiceReply(set, LanguageSetMsg(set))
        ELSE VoiceReply(vc, LanguageNotFoundMsg(language_name))

\* variant: only the male lists are searched
FindVoiceLanguageMaleOnly(voice_name) ==
    IF \E i \in 1..Len(available_voices) : voice_name \in Elements(available_voices[i].male)
    THEN CHOOSE i \in 1..Len(available_voices) :
            /\ voice_name \in Elements(available_voices[i].male)
            /\ \A j \in 1..(i - 1) : voice_name \notin Elements(available_voices[j].male)
    ELSE 0

\* the loop over the catalog: the position of the first language that has
\* the voice in its male or female list, 0 when none has
FindVoiceLanguage(voice_name) ==
    IF \E i \in 1..Len(available_voices) :
          voice_name \in Elements(available_voices[i].male) \cup Elements(available_voices[i].female)
    THEN CHOOSE i \in 1..Len(available_voices) :
            /\ voice_name \in Elements(available_voices[i].male)
                                 \cup Elements(available_voices[i].female)
            /\ \A j \in 1..(i - 1) :
                  voice_name \notin Elements(available_voices[j].male)
                                        \cup Elements(available_voices[j].female)
    ELSE 0

\* set_voice:<id>
SetVoice(vc, command) ==
    LET voice_name == Strip(SplitColon1(command))
        found == FindVoiceLanguage(voice_name)
    IN  IF found # 0
        THEN VoiceReply([vc EXCEPT !.selected_voice = voice_name,
                                   !.current_language = available_voices[found].language],
                        VoiceSetMsg(voice_name, available_voices[found].language))
        ELSE VoiceReply(vc, VoiceNotFoundMsg(voice_name))

\* VoiceControlTool._run: the if/elif chain on command_lower
VoiceControlTool_run(vc, command) ==
    LET command_lower == Lower(command)
    IN  IF command_lower = "list_voices" THEN VoiceReply(vc, ListVoicesMsg(vc))
        ELSE IF command_lower = "list_languages" THEN VoiceReply(vc, ListLanguagesMsg)
        ELSE IF StartsWith(command_lower, "set_language:") THEN SetLanguage(vc, command)
        ELSE IF StartsWith(command_lower, "set_voice:") THEN SetVoice(vc, command)
        ELSE IF command_lower = "enable_voice"
            THEN VoiceReply([vc EXCEPT !.enabled = TRUE], "Voice output enabled.")
        ELSE IF command_lower = "disable_voice"
            THEN VoiceReply([vc EXCEPT !.enabled = FALSE], "Voice output disabled.")
        ELSE IF command_lower = "voice_status" THEN VoiceReply(vc, VoiceStatusMsg(vc))
        ELSE VoiceReply(vc, UnknownVoiceCommandMsg(command))

\* commands the agent may pass to voice_control
VoiceCommands == {
    "list_voices", "list_languages", "voice_status", "Voice_Status", "mute",
    "enable_voice", "disable_voice", "DISABLE_VOICE",
    "set_language:ES Spanish", "set_language:KR Korean", "SET_LANGUAGE:FR French",
    "set_language: DE German ", "set_language:IT Italian:x", "set_language:US English",
    "set_language:Klingon", "set_language:es spanish", "set_language:",
    "set_voice:Joanna", "set_voice:Seoyeon", "set_voice:Lupe", "Set_Voice:Kajal",
    "set_voice: Ruth ", "set_voice:Hans:x", "set_voice:hans", "set_voice:Nobody",
    "set_voice:"
}

-----------------------------------------------------------------------------
(* The sidebar's Voice tab *)

\* the tab run with what its widgets return: the toggle, the language
\* selectbox, the voice-type radio, the voice selectbox and the rate slider
VoiceTab(vc, voice_enabled, selected_language, voice_type, selected_voice, speech_rate) ==
    LET toggled == [vc EXCEPT !.enabled = voice_enabled]
        language_set ==
            IF selected_language # toggled.current_language
            THEN [toggled EXCEPT !.current_language = selected_language,
                                 !.selected_voice = VoicesOf(selected_language).male[1]]
            ELSE toggled
    IN  IF voice_enabled
        THEN [language_set EXCEPT !.selected_voice = selected_voice, !.rate = speech_rate]
        ELSE toggled

\* the options of the voice selectbox
VoiceList(selected_language, voice_type) ==
    IF voice_type = "Male" THEN VoicesOf(selected_language).male
    ELSE VoicesOf(selected_language).female

\* what the voice selectbox shows when it is left alone: the selected voice
\* if the list has it, the first of the list otherwise
ShownVoice(vc, selected_language, voice_type) ==
    LET voice_list == VoiceList(selected_language, voice_type)
    IN  IF vc.selected_voice \in Elements(voice_list) THEN vc.selected_voice ELSE voice_list[1]

\* the Voice tab rendered with every widget left alone: the toggle, the
\* language selectbox and the slider show the configuration, the radio
\* shows "Male"
VoiceTabLeftAlone(vc) ==
    VoiceTab(vc, vc.enabled, vc.current_language, "Male",
             ShownVoice(vc, vc.current_language, "Male"), vc.rate)

-----------------------------------------------------------------------------
(* Workflow messages *)

\* a message of the workflow: its type, its content and the number of its
\* tool calls
Message(type, content, tool_calls) ==
    [type |-> type, content |-> content, tool_calls |-> tool_calls]

HumanMessage == Message("human", "prompt", 0)

\* what the model answers, asking for n tool calls
Response(n) == Message("ai", "response", n)

ToolMessage == Message("tool", "result", 0)

FallbackMessage ==
    Message("ai", "I'm having trouble connecting to my AI service right now. "
                      \o "Please check your API keys or try again later. "
                      \o "If this problem persists, please contact support.", 0)

-----------------------------------------------------------------------------
(* call_model and the workflow graph *)

max_retries == 3

\* variant: the backoff is not doubled
HandleFailureFixedBackoff(count, backoff, slept) ==
    IF count + 1 < max_retries
    THEN [retry_count |-> count + 1, backoff_time |-> backoff,
          sleeps |-> Append(slept, backoff), give_up |-> FALSE]
    ELSE [retry_count |-> count + 1, backoff_time |-> backoff, sleeps |-> slept,
          give_up |-> TRUE]

\* the except branch: count the failure, then sleep and double the backoff
\* or give up
HandleFailure(count, backoff, slept) ==
    IF count + 1 < max_retries
    THEN [retry_count |-> count + 1, backoff_time |-> backoff * 2,
          sleeps |-> Append(slept, backoff), give_up |-> FALSE]
    ELSE [retry_count |-> count + 1, backoff_time |-> backoff, sleeps |-> slept,
          give_up |-> TRUE]

\* variant: any message with tool calls sends the run to the tools
RouteAnyMessage(msgs) ==
    IF \E i \in 1..Len(msgs) : msgs[i].tool_calls > 0 THEN "tools" ELSE "end"

\* the conditional edge after the agent: looks at state["messages"][-1:]
Route(msgs) ==
    IF \E i \in {j \in 1..Len(msgs) : j = Len(msgs)} : msgs[i].tool_calls > 0
    THEN "tools"
    ELSE "end"

\* n tool messages, one per tool call
ToolMessages(n) == [i \in 1..n |-> ToolMessage]

\* what an attempt of call_model can meet
Outcomes ==
    {[kind |-> "response", tool_calls |-> n] : n \in 0..MaxToolCalls}
        \cup {[kind |-> "build_error", tool_calls |-> 0],
              [kind |-> "invoke_error", tool_calls |-> 0]}

-----------------------------------------------------------------------------
(* The script run: session keys, inactivity checks, chat turn *)

idle_threshold == 1800

DelKey(ss, key) == [k \in DOMAIN ss \ {key} |-> ss[k]]

\* "if key not in st.session_state: st.session_state.key = value"
SetDefault(ss, key, value) == IF HasKey(ss, key) THEN ss ELSE SetKey(ss, key, value)

\* the session keys every script run makes sure of; uuid is what uuid4() gives
InitSessionState(ss, uuid, time) ==
    LET s1 == SetDefault(ss, "chat_history", << >>)
        s2 == SetDefault(s1, "thread_id", uuid)
        s3 == SetDefault(s2, "current_document", "None")
        s4 == SetDefault(s3, "current_page", 1)
        s5 == SetDefault(s4, "total_pages", 0)
        s6 == SetDefault(s5, "document_metadata", << >>)
        s7 == SetDefault(s6, "teaching_mode", "standard")
    IN  SetDefault(s7, "last_activity", time)

\* the Teaching tab's radio
TeachingModes == <<"Standard", "Interactive", "Summarized">>

TeachingTab(ss, teaching_mode) ==
    IF Lower(teaching_mode) # ss.teaching_mode
    THEN SetKey(ss, "teaching_mode", Lower(teaching_mode))
    ELSE ss

ChatMessage(role, content) == [role |-> role, content |-> content]

WelcomeMessage ==
    ChatMessage("assistant",
                "Hello! I'm Zoti, your document teaching assistant. "
                    \o "What would you like to learn today? If you've uploaded a document, "
                    \o "let me know its name and I'll help you understand it step by step.")

\* the "Clear Chat History" button; st.experimental_rerun() follows
ClearChatHistory(ss) == SetKey(ss, "messages", <<WelcomeMessage>>)

\* "Initialize messages container"
InitMessages(ss) == SetDefault(ss, "messages", <<WelcomeMessage>>)

\* "Inactivity detection": after 5 minutes last_activity is set to the present
InactivityDetection(ss, current_time) ==
    IF current_time - ss.last_activity > 300
    THEN SetKey(ss, "last_activity", current_time)
    ELSE ss

\* the condition of the idle restart
Idle(ss, time) == time - ss.last_activity > idle_threshold

RestartKeys == <<"messages", "thread_id", "current_document", "current_page">>

RECURSIVE DelKeys(_, _)
DelKeys(ss, keys) ==
    IF keys = << >> THEN ss
    ELSE DelKeys(IF HasKey(ss, Head(keys)) THEN DelKey(ss, Head(keys)) ELSE ss, Tail(keys))

\* the idle restart's reset of the session; st.experimental_rerun() follows
IdleRestart(ss) == DelKeys(ss, RestartKeys)

SystemPrompt == "# You are Zoti, a dedicated and insightful educator."

\* the teaching mode context injected into the system message
ModeContext(teaching_mode) ==
    LET mode_context == "\nCurrent teaching mode: " \o teaching_mode \o ".\n"
    IN  IF teaching_mode = "interactive"
        THEN mode_context \o "Use the Socratic method, ask more questions, and guide the "
                          \o "student to discover information."
        ELSE IF teaching_mode = "summarized"
        THEN mode_context \o "Focus on key points and provide more concise explanations."
        ELSE mode_context

SystemMessage(teaching_mode) == Message("system", SystemPrompt \o ModeContext(teaching_mode), 0)

\* a message of the chat history as a message of the workflow
HistoryMessage(m) ==
    IF m.role = "user" THEN Message("human", m.content, 0) ELSE Message("ai", m.content, 0)

\* st.session_state.messages[1:] as workflow messages
History(chat) == [i \in 1..(Len(chat) - 1) |-> HistoryMessage(chat[i + 1])]

\* the message list handle_chat_input gives to app.ainvoke
PrepareMessages(ss, prompt) ==
    <<SystemMessage(ss.teaching_mode)>> \o History(ss.messages)
        \o <<Message("human", prompt, 0)>>

\* what app.ainvoke can come to: the content of the last message of the run
\* or an exception, and whether call_model has set last_activity on the way
Results ==
    {[raised |-> FALSE, content |-> "response", active |-> TRUE]}
        \cup {[raised |-> FALSE, content |-> FallbackMessage.content, active |-> a] :
                 a \in BOOLEAN}
        \cup {[raised |-> TRUE, content |-> "", active |-> a] : a \in BOOLEAN}

\* handle_chat_input: the workflow is invoked and its answer joins the history
handle_chat_input(ss, prompt, result, time) ==
    LET active == IF result.active THEN SetKey(ss, "last_activity", time) ELSE ss
    IN  IF result.raised
        THEN active
        ELSE SetKey(active, "messages",
                    Append(active.messages, ChatMessage("assistant", result.content)))

\* "Main chat interface": the prompt joins the history, then the turn runs
MainChat(ss, prompt, result, time) ==
    IF prompt # ""
    THEN LET asked == SetKey(ss, "messages", Append(ss.messages, ChatMessage("user", prompt)))
         IN  [ss |-> handle_chat_input(asked, prompt, result, time),
              handed |-> PrepareMessages(asked, prompt)]
    ELSE [ss |-> ss, handed |-> << >>]

\* one run of the script from top to bottom, at one reading of the clock;
\* the sidebar's uploader and Voice tab are the actions Upload and RenderVoiceTab
ScriptRunOutcome(ss, uuid, teaching_mode, clear, prompt, result, time) ==
    LET initialised == InitSessionState(ss, uuid, time)
        taught == TeachingTab(initialised, teaching_mode)
        with_messages == InitMessages(taught)
        detected == InactivityDetection(with_messages, time)
        chat == MainChat(detected, prompt, result, time)
    IN  IF clear
        THEN [ss |-> ClearChatHistory(taught), rerun |-> TRUE, handed |-> << >>]
        ELSE IF Idle(detected, time)
        THEN [ss |-> IdleRestart(detected), rerun |-> TRUE, handed |-> << >>]
        ELSE [ss |-> chat.ss, rerun |-> FALSE, handed |-> chat.handed]

Prompts == {"hi", "why?"}

ThreadIds == {"uuid-1", "uuid-2"}

Delays == {301, 1801}

-----------------------------------------------------------------------------
(* State machine *)

Init ==
    /\ session_state = << >>
    /\ temp_files = {}
    /\ call = [tool |-> "none", input |-> ""]
    /\ ret = [raised |-> FALSE, value |-> ""]
    /\ temp_path = 0
    /\ loader = "none"
    /\ next_calls = -1
    /\ voice_config = InitialVoiceConfig
    /\ node = "start"
    /\ messages = <<HumanMessage>>
    /\ agent_steps = 0
    /\ pc = "idle"
    /\ retry_count = 0
    /\ backoff_time = 0
    /\ invocations = 0
    /\ sleeps = << >>
    /\ now = 0
    /\ rerun = FALSE
    /\ handed = << >>

\* the sidebar's file uploader: a non-empty selection replaces the registry
Upload(files) ==
    /\ session_state' = IF files # <<>> THEN SetKey(session_state, "uploaded_files", files)
                        ELSE session_state
    /\ call' = [tool |-> "file_uploader", input |-> ""]
    /\ ret' = [raised |-> FALSE, value |-> ""]
    /\ temp_path' = 0
    /\ loader' = "none"
    /\ next_calls' = -1
    /\ UNCHANGED <<temp_files, voice_config, workflow_vars, script_vars>>

\* the agent calls document_loader
LoadDocument(document_name) ==
    /\ Cardinality(temp_files) < MaxTemp
    /\ LET o == DocumentLoadTool_run(session_state, temp_files, document_name)
       IN  /\ session_state' = o.ss
           /\ temp_files' = o.tf
           /\ call' = [tool |-> "document_loader", input |-> document_name]
           /\ ret' = [raised |-> o.exc, value |-> o.value]
           /\ temp_path' = o.temp_path
           /\ loader' = o.loader
           /\ next_calls' = IF StartsWith(o.value, "Successfully loaded") THEN 0 ELSE -1
    /\ UNCHANGED <<voice_config, workflow_vars, script_vars>>

\* the agent calls page_reader
ReadPage(command) ==
    /\ LET o == PageReaderTool_run(session_state, command)
       IN  /\ session_state' = o.ss
           /\ ret' = [raised |-> o.exc, value |-> o.value]
    /\ call' = [tool |-> "page_reader", input |-> command]
    /\ temp_path' = 0
    /\ loader' = "none"
    /\ next_calls' = IF Lower(command) = "next_page" /\ next_calls >= 0
                     THEN (IF next_calls < MaxNextCalls THEN next_calls + 1 ELSE MaxNextCalls)
                     ELSE -1
    /\ UNCHANGED <<temp_files, voice_config, workflow_vars, script_vars>>

\* the agent calls voice_control
VoiceControl(command) ==
    /\ LET o == VoiceControlTool_run(voice_config, command)
       IN  /\ voice_config' = o.vc
           /\ ret' = [raised |-> o.exc, value |-> o.value]
    /\ call' = [tool |-> "voice_control", input |-> command]
    /\ UNCHANGED <<doc_vars, workflow_vars, script_vars>>

SpeechRates == {"slow", "medium", "fast"}

\* a script run renders the Voice tab; each widget returns one of its options
RenderVoiceTab(voice_enabled, selected_language, voice_type, selected_voice, speech_rate) ==
    /\ selected_language \in Elements(Languages)
    /\ voice_type \in {"Male", "Female"}
    /\ selected_voice \in Elements(VoiceList(selected_language, voice_type))
    /\ speech_rate \in SpeechRates
    /\ voice_config' = VoiceTab(voice_config, voice_enabled, selected_language, voice_type,
                                selected_voice, speech_rate)
    /\ call' = [tool |-> "sidebar_voice_tab", input |-> ""]
    /\ ret' = [raised |-> FALSE, value |-> ""]
    /\ UNCHANGED <<doc_vars, workflow_vars, script_vars>>

NextVoice ==
    \/ \E command \in VoiceCommands : VoiceControl(command)
    \/ \E voice_enabled \in BOOLEAN, selected_language \in Elements(Languages),
          voice_type \in {"Male", "Female"}, speech_rate \in SpeechRates :
            \E selected_voice \in Elements(VoiceList(selected_language, voice_type)) :
                RenderVoiceTab(voice_enabled, selected_language, voice_type, selected_voice,
                               speech_rate)

SpecVoice == Init /\ [][NextVoice]_vars

\* call_model is entered: its locals are set
EnterCallModel ==
    /\ pc' = "loop"
    /\ retry_count' = 0
    /\ backoff_time' = 1
    /\ invocations' = 0
    /\ sleeps' = << >>
    /\ agent_steps' = agent_steps + 1

\* the edge from START to the agent
StartAgent ==
    /\ node = "start"
    /\ node' = "agent"
    /\ EnterCallModel
    /\ UNCHANGED <<messages, doc_vars, voice_config, call, ret, script_vars>>

\* one pass of the while loop of call_model: the model is built and
\* invoked; a response is returned, a failure is counted and either slept
\* on or answered with the fallback message
Attempt(outcome) ==
    /\ node = "agent"
    /\ pc = "loop"
    /\ retry_count < max_retries
    /\ invocations' = IF outcome.kind = "build_error" THEN invocations ELSE invocations + 1
    /\ IF outcome.kind = "response"
       THEN /\ messages' = Append(messages, Response(outcome.tool_calls))
            /\ pc' = "returned"
            /\ UNCHANGED <<retry_count, backoff_time, sleeps>>
       ELSE LET h == HandleFailure(retry_count, backoff_time, sleeps)
            IN  /\ retry_count' = h.retry_count
                /\ backoff_time' = h.backoff_time
                /\ sleeps' = h.sleeps
                /\ messages' = IF h.give_up THEN Append(messages, FallbackMessage) ELSE messages
                /\ pc' = IF h.give_up THEN "returned" ELSE "loop"
    /\ UNCHANGED <<node, agent_steps, doc_vars, voice_config, call, ret, script_vars>>

\* the conditional edge after the agent has returned
RouteAgent ==
    /\ node = "agent"
    /\ pc = "returned"
    /\ node' = Route(messages)
    /\ pc' = "idle"
    /\ UNCHANGED <<messages, agent_steps, retry_count, backoff_time, invocations, sleeps,
                   doc_vars, voice_config, call, ret, script_vars>>

\* the tools node answers every tool call of the last message and hands
\* over to the agent (what the tools do to the session is in Spec and SpecVoice)
RunTools ==
    /\ node = "tools"
    /\ agent_steps < MaxAgentSteps
    /\ messages' = messages \o ToolMessages(messages[Len(messages)].tool_calls)
    /\ node' = "agent"
    /\ EnterCallModel
    /\ UNCHANGED <<doc_vars, voice_config, call, ret, script_vars>>

NextWorkflow ==
    \/ StartAgent
    \/ \E outcome \in Outcomes : Attempt(outcome)
    \/ RouteAgent
    \/ RunTools

SpecWorkflow == Init /\ [][NextWorkflow]_vars

\* every await of call_model comes back: the model answers or fails, a sleep ends
FairSpecWorkflow == SpecWorkflow /\ WF_vars(\E outcome \in Outcomes : Attempt(outcome))

\* what uuid4() can give where the script asks for it
NewIds == IF HasKey(session_state, "thread_id") THEN {"uuid-1"} ELSE ThreadIds

\* the mode the Teaching tab's radio shows when it is left alone
ShownMode ==
    IF HasKey(session_state, "teaching_mode")
    THEN TeachingModes[CHOOSE i \in 1..3 :
                           <<"standard", "interactive", "summarized">>[i]
                               = session_state.teaching_mode]
    ELSE "Standard"

\* time passes between two script runs
Tick(delay) ==
    /\ ~ rerun
    /\ now + delay <= MaxTime
    /\ now' = now + delay
    /\ UNCHANGED <<doc_vars, voice_config, workflow_vars, call, ret, rerun, handed>>

\* the script runs; the first run of a session, and the run that follows
\* st.experimental_rerun() at once, have no widget changed, no button
\* clicked and no prompt entered
ScriptRun(uuid, teaching_mode, clear, prompt, result) ==
    /\ rerun \/ ~ HasKey(session_state, "messages")
          => ~ clear /\ prompt = "" /\ teaching_mode = ShownMode
    /\ prompt # "" /\ HasKey(session_state, "messages")
          => Len(session_state.messages) + 2 <= MaxMessages
    /\ LET o == ScriptRunOutcome(session_state, uuid, teaching_mode, clear, prompt, result, now)
       IN  /\ session_state' = o.ss
           /\ rerun' = o.rerun
           /\ handed' = o.handed
    /\ call' = [tool |-> IF clear THEN "clear_chat_history" ELSE "script_run", input |-> prompt]
    /\ ret' = [raised |-> FALSE, value |-> ""]
    /\ UNCHANGED <<temp_files, temp_path, loader, next_calls, voice_config, workflow_vars, now>>

\* a script run follows one thing the user does: the radio is set, the
\* button is clicked or a prompt is entered
NextScript ==
    \/ \E delay \in Delays : Tick(delay)
    \/ \E uuid \in NewIds, teaching_mode \in Elements(TeachingModes) :
            ScriptRun(uuid, teaching_mode, FALSE, "", CHOOSE result \in Results : TRUE)
    \/ \E uuid \in NewIds :
            ScriptRun(uuid, ShownMode, TRUE, "", CHOOSE result \in Results : TRUE)
    \/ \E uuid \in NewIds, prompt \in Prompts, result \in Results :
            ScriptRun(uuid, ShownMode, FALSE, prompt, result)

SpecScript == Init /\ [][NextScript]_vars

Next ==
    \/ \E files \in UploadLists : Upload(files)
    \/ \E document_name \in DocumentNames : LoadDocument(document_name)
    \/ \E command \in Commands : ReadPage(command)

Spec == Init /\ [][Next]_vars

-----------------------------------------------------------------------------
(* Properties *)

HasStore == HasKey(session_state, "document_store")
HasStore_ == HasKey(session_state', "document_store")

\* a document is loaded: the store exists and document_pages is non-empty
Loaded == HasStore /\ session_state.document_store.document_pages # <<>>

\* the store is as it was: untouched if it existed, and if it did not, at
\* most created empty
StoreKept ==
    /\ HasStore => HasStore_ /\ session_state'.document_store = session_state.document_store
    /\ ~HasStore /\ HasStore_ => session_state'.document_store = EmptyStore

\* the step is a call of the tool
Calls(tool) == call'.tool = tool

\* positions in the upload registry whose file has the name
Matching(name) ==
    IF HasKey(session_state, "uploaded_files")
    THEN {i \in 1..Len(session_state.uploaded_files) : session_state.uploaded_files[i].name = name}
    ELSE {}

\* the upload a load of the name works on
Matched(name) ==
    session_state.uploaded_files[CHOOSE i \in Matching(name) : \A j \in Matching(name) : i <= j]

SupportedExtensions == {".pdf", ".docx", ".doc", ".csv", ".txt"}

\* C1: whenever document_pages is non-empty, 0 <= current_page_index < len(document_pages)
C1_IndexInRange ==
    Loaded =>
        /\ 0 <= session_state.document_store.current_page_index
        /\ session_state.document_store.current_page_index
               < Len(session_state.document_store.document_pages)

\* navigation has reached the last page of a document of several pages
C1_Witness ==
    /\ Loaded
    /\ call.tool = "page_reader"
    /\ session_state.document_store.current_page_index > 0
    /\ session_state.document_store.current_page_index
           = Len(session_state.document_store.document_pages) - 1

\* C2: whenever the document store exists, total_pages = len(document_pages)
C2_TotalPagesConsistent ==
    HasStore =>
        session_state.document_store.total_pages
            = Len(session_state.document_store.document_pages)

\* a load has put a document of three pages in the store
C2_Witness ==
    /\ HasStore
    /\ call.tool = "document_loader"
    /\ Len(session_state.document_store.document_pages) = 3

\* C3: a successful load leaves the store holding exactly the parser's page
\* list, index 0, the length of that list and the uploaded file's name,
\* whatever it held before
C3_LoadReplacesStore ==
    [][ Calls("document_loader") /\ StartsWith(ret'.value, "Successfully loaded")
        => /\ Matching(call'.input) # {}
           /\ LET f == Matched(call'.input)
                  docs == RunLoader(Lower(SplitExt(f.name)[2]), f).out.docs
              IN  /\ HasStore_
                  /\ session_state'.document_store =
                        [document_pages |-> docs,
                         current_page_index |-> 0,
                         total_pages |-> Len(docs),
                         document_name |-> call'.input] ]_vars

\* a pdf of two pages has been loaded
C3_Witness ==
    /\ call.tool = "document_loader"
    /\ call.input = "b.PDF"
    /\ StartsWith(ret.value, "Successfully loaded b.PDF with 2 pages.")
    /\ session_state.document_store.document_pages = <<"r1", "r2">>

\* C4: after a load, the temporary file it created no longer exists
C4_TempFileDeleted ==
    call.tool = "document_loader" /\ temp_path # 0 => temp_path \notin temp_files

\* C5: when the parser fails, the load returns the error message with the
\* parser's message, raises nothing, and leaves an existing store as it was
C5_ParserFailureKeepsStore ==
    [][ /\ Calls("document_loader")
        /\ Matching(call'.input) # {}
        /\ Lower(SplitExt(call'.input)[2]) \in SupportedExtensions
        /\ ~Matched(call'.input).ok
        => /\ ret' = [raised |-> FALSE,
                      value |-> "Error loading document: " \o Matched(call'.input).err]
           /\ StoreKept ]_vars

\* a load has failed in the parser while a document was loaded
C5_Witness ==
    /\ call = [tool |-> "document_loader", input |-> "h.txt"]
    /\ ret.value = "Error loading document: 'utf-8' codec can't decode byte 0xff"
    /\ Loaded
    /\ session_state.document_store.document_name = "d.csv"

\* C6: a load of a name that no upload has returns the no-files or the
\* not-found message and leaves an existing store as it was
C6_NotUploadedKeepsStore ==
    [][ Calls("document_loader") /\ Matching(call'.input) = {}
        => /\ ~ret'.raised
           /\ ret'.value =
                IF HasKey(session_state, "uploaded_files")
                THEN "Error: File \"" \o call'.input
                        \o "\" not found. Please check the filename and try again."
                ELSE "Error: No files have been uploaded. Please upload a file first."
           /\ StoreKept ]_vars

\* a load of a name that was not uploaded, with a document open at its second page
C6_Witness ==
    /\ call = [tool |-> "document_loader", input |-> "D.CSV"]
    /\ ret.value = NotFoundMsg("D.CSV")
    /\ Loaded
    /\ session_state.document_store.current_page_index = 1

\* the loader each extension is to be dispatched to, in several spellings
ExtensionCases == {
    <<".pdf", "PyPDFLoader">>, <<".PDF", "PyPDFLoader">>, <<".Pdf", "PyPDFLoader">>,
    <<".docx", "Docx2txtLoader">>, <<".DOCX", "Docx2txtLoader">>,
    <<".doc", "Docx2txtLoader">>, <<".Doc", "Docx2txtLoader">>,
    <<".csv", "CSVLoader">>, <<".CSV", "CSVLoader">>,
    <<".txt", "open">>, <<".TXT", "open">>, <<".Txt", "open">>,
    <<".md", "none">>, <<".pptx", "none">>, <<".pdfx", "none">>, <<".tx", "none">>
}

\* C7: a load of an upload whose lower-cased extension is not supported
\* returns the unsupported-format message naming it and leaves the store as
\* it was; otherwise the loader is the one of the lower-cased extension
C7_UnsupportedFormat ==
    [][ Calls("document_loader") /\ Matching(call'.input) # {}
        => LET ext == Lower(SplitExt(call'.input)[2])
           IN  /\ \A c \in ExtensionCases :
                     RunLoader(FileExt("n" \o c[1]), Matched(call'.input)).loader = c[2]
               /\ \E c \in ExtensionCases :
                     /\ Lower(c[1]) = ext
                     /\ loader' = c[2]
               /\ ext \notin SupportedExtensions
                     => /\ ret' = [raised |-> FALSE,
                                   value |-> "Error: Unsupported file format \"" \o ext
                                       \o "\". Supported formats are PDF, DOCX, CSV, and TXT."]
                        /\ StoreKept ]_vars

\* a load of a markdown upload has been rejected while a document was loaded
C7_Witness ==
    /\ call = [tool |-> "document_loader", input |-> "g.md"]
    /\ ret.value = UnsupportedMsg(".md")
    /\ Loaded

\* the step is the reader's command on a loaded document
Reads(command_lower) ==
    Calls("page_reader") /\ Lower(call'.input) = command_lower /\ Loaded

\* C8: next_page at the last index returns the last-page message and changes
\* nothing; elsewhere it adds 1 to the index, changes nothing else and
\* returns the page at the new index; the index stays below total_pages
C8_NextPage ==
    [][ Reads("next_page")
        => LET store == session_state.document_store
               after == session_state'.document_store
           IN  /\ ~ret'.raised
               /\ after.current_page_index <= after.total_pages - 1
               /\ IF store.current_page_index = store.total_pages - 1
                  THEN /\ ret'.value = "You are already at the last page ("
                              \o IntToStr(store.total_pages) \o ") of the document."
                       /\ session_state' = session_state
                  ELSE /\ after = [store EXCEPT !.current_page_index = @ + 1]
                       /\ session_state' = SetKey(session_state, "document_store", after)
                       /\ ret'.value = FormatPage(after,
                              store.document_pages[store.current_page_index + 2]) ]_vars

\* next_page has been refused at the last of three pages
C8_Witness ==
    /\ call.tool = "page_reader"
    /\ Lower(call.input) = "next_page"
    /\ ret.value = "You are already at the last page (3) of the document."
    /\ session_state.document_store.current_page_index = 2

\* C9: previous_page at index 0 returns the first-page message and changes
\* nothing; elsewhere it subtracts 1 from the index, changes nothing else
\* and returns the page at the new index; the index stays at or above 0
C9_PreviousPage ==
    [][ Reads("previous_page")
        => LET store == session_state.document_store
               after == session_state'.document_store
           IN  /\ ~ret'.raised
               /\ after.current_page_index >= 0
               /\ IF store.current_page_index = 0
                  THEN /\ ret'.value = "You are already at the first page of the document."
                       /\ session_state' = session_state
                  ELSE /\ after = [store EXCEPT !.current_page_index = @ - 1]
                       /\ session_state' = SetKey(session_state, "document_store", after)
                       /\ ret'.value = FormatPage(after,
                              store.document_pages[store.current_page_index]) ]_vars

\* previous_page has been refused at the first of several pages
C9_Witness ==
    /\ call.tool = "page_reader"
    /\ Lower(call.input) = "previous_page"
    /\ ret.value = "You are already at the first page of the document."
    /\ session_state.document_store.current_page_index = 0
    /\ session_state.document_store.total_pages > 1

\* page numbers asked for
PageNumbers == -1..4

\* C10: go_to_page:N with N outside 1..total_pages returns the range
\* message and leaves the index, and the rest of the store, as it was
C10_GoToPageOutOfRange ==
    [][ \A n \in PageNumbers :
          /\ Reads("go_to_page:" \o IntToStr(n))
          /\ (n < 1 \/ n > session_state.document_store.total_pages)
          => /\ ret' = [raised |-> FALSE,
                        value |-> "Invalid page number. Please specify a page between 1 and "
                            \o IntToStr(session_state.document_store.total_pages) \o "."]
             /\ session_state' = session_state ]_vars

\* page 4 of three has been refused with the second page open
C10_Witness ==
    /\ call = [tool |-> "page_reader", input |-> "go_to_page:4"]
    /\ ret.value = "Invalid page number. Please specify a page between 1 and 3."
    /\ session_state.document_store.current_page_index = 1

\* the text of the command after the first n characters
After(command, n) == SubSeq(command, n + 1, Len(command))

\* C11: go_to_page:<N> where the whole text after the prefix is not an
\* integer returns the format-error message and leaves the store as it was
C11_GoToPageUnparsable ==
    [][ /\ Calls("page_reader")
        /\ Loaded
        /\ StartsWith(Lower(call'.input), "go_to_page:")
        /\ ~ParseInt(After(call'.input, 11)).ok
        => /\ ret'.value = "Invalid page number format. Please use 'go_to_page:X' where X is a number."
           /\ session_state' = session_state ]_vars

\* C12: go_to_page:N with N in 1..total_pages sets the index to N-1,
\* changes nothing else and returns page N; issued again right after, it
\* returns the same and leaves the store as it is
C12_GoToPageIdempotent ==
    [][ \A n \in PageNumbers :
          /\ Reads("go_to_page:" \o IntToStr(n))
          /\ n >= 1 /\ n <= session_state.document_store.total_pages
          => LET store == session_state.document_store
                 after == [store EXCEPT !.current_page_index = n - 1]
             IN  /\ session_state' = SetKey(session_state, "document_store", after)
                 /\ ret' = [raised |-> FALSE,
                            value |-> FormatPage(after, store.document_pages[n])]
                 /\ (call = call' => ret' = ret /\ session_state' = session_state) ]_vars

\* page 3 of three has been opened
C12_Witness ==
    /\ call = [tool |-> "page_reader", input |-> "go_to_page:3"]
    /\ ret.value = "[Page 3/3 of \"d.csv\"]\n\nx: 3"
    /\ session_state.document_store.current_page_index = 2

\* C13: with no document loaded every page_reader command returns a
\* load-a-document-first message and changes nothing
C13_NoDocumentGuidance ==
    [][ Calls("page_reader") /\ ~Loaded
        => /\ ret' = [raised |-> FALSE,
                      value |-> IF HasStore
                                THEN "No document is currently loaded. Please use the document_loader tool first."
                                ELSE "No document store initialized. Please use the document_loader tool first."]
           /\ session_state' = session_state
           /\ temp_files' = temp_files ]_vars

\* a command has been refused on a store that exists and is empty
C13_Witness ==
    /\ call = [tool |-> "page_reader", input |-> "next_page"]
    /\ HasStore
    /\ ~Loaded
    /\ ret.value = NoDocumentMsg

\* the store holds a csv document of three pages
ThreePageCsv ==
    /\ Loaded
    /\ Lower(SplitExt(session_state.document_store.document_name)[2]) = ".csv"
    /\ Len(session_state.document_store.document_pages) = 3

\* a csv upload of three records has just been loaded
ThreeRowCsvLoaded ==
    /\ next_calls = 0
    /\ Lower(SplitExt(call.input)[2]) = ".csv"
    /\ Len(Matched(call.input).units) = 3

\* the last operation moved to the page of the index and returned it
Navigated(index) ==
    /\ session_state.document_store.current_page_index = index
    /\ ret.value = FormatPage(session_state.document_store,
                              session_state.document_store.document_pages[index + 1])

LastPageRefused ==
    ret.value = "You are already at the last page ("
                    \o IntToStr(session_state.document_store.total_pages) \o ") of the document."

\* C14 as stated: a 3-row csv loads as 3 pages; the first three next_page
\* calls after the load navigate and the fourth is the first to be refused
C14_ThreeNextPages ==
    /\ ThreeRowCsvLoaded => ThreePageCsv
    /\ ThreePageCsv /\ next_calls \in 1..3 => ~LastPageRefused
    /\ ThreePageCsv /\ next_calls = 4 => LastPageRefused

\* C14 as amended: a 3-row csv loads as 3 pages; the first two next_page
\* calls after the load navigate and the third is the first to be refused
C14_TwoNextPages ==
    /\ ThreeRowCsvLoaded => ThreePageCsv
    /\ ThreePageCsv /\ next_calls \in 1..2 => Navigated(next_calls) /\ ~LastPageRefused
    /\ ThreePageCsv /\ next_calls >= 3
          => LastPageRefused /\ session_state.document_store.current_page_index = 2

\* the third next_page after the load of the 3-row csv has been refused
C14_Witness ==
    /\ ThreePageCsv
    /\ next_calls = 3
    /\ LastPageRefused
    /\ session_state.document_store.document_pages = <<"x: 1", "x: 2", "x: 3">>

\* C15: read_current_page right after a load that returned 'Successfully
\* loaded' returns the first page under its '[Page 1/total of "name"]' header
C15_ReadAfterLoad ==
    [][ /\ call.tool = "document_loader"
        /\ StartsWith(ret.value, "Successfully loaded")
        /\ Calls("page_reader")
        /\ Lower(call'.input) = "read_current_page"
        => /\ session_state.document_store.document_pages # <<>>
           /\ ret'.value = "[Page 1/" \o IntToStr(session_state.document_store.total_pages)
                  \o " of \"" \o session_state.document_store.document_name \o "\"]\n\n"
                  \o session_state.document_store.document_pages[1] ]_vars

\* the male and female voices of a language
VoicesUnder(language) ==
    UNION {Elements(available_voices[i].male) \cup Elements(available_voices[i].female) :
              i \in {j \in 1..Len(available_voices) : available_voices[j].language = language}}

\* C16: selected_voice is in the male or female list of current_language
C16_VoiceOfLanguage ==
    voice_config.selected_voice \in VoicesUnder(voice_config.current_language)

\* the Voice tab has selected a female voice of another language
C16_Witness ==
    /\ call.tool = "sidebar_voice_tab"
    /\ voice_config.current_language = "JP Japanese"
    /\ voice_config.selected_voice = "Haruka"

\* the name or id a voice_control command carries after its colon
Argument(command) == Strip(SplitColon1(command))

\* the step is a voice_control command with the prefix
Voices(prefix) == Calls("voice_control") /\ StartsWith(Lower(call'.input), prefix)

\* C17: set_language with a catalog key sets current_language to it and
\* selected_voice to the first male voice of it, enabled unchanged; with
\* another name it reports not found and changes nothing
C17_SetLanguage ==
    [][ Voices("set_language:")
        => LET name == Argument(call'.input)
           IN  IF \E i \in 1..Len(available_voices) : available_voices[i].language = name
               THEN /\ \E i \in 1..Len(available_voices) :
                          /\ available_voices[i].language = name
                          /\ voice_config' = [voice_config EXCEPT
                                                 !.current_language = name,
                                                 !.selected_voice = available_voices[i].male[1]]
                    /\ voice_config'.enabled = voice_config.enabled
                    /\ StartsWith(ret'.value, "Language set to " \o name \o ".")
               ELSE /\ voice_config' = voice_config
                    /\ StartsWith(ret'.value, "Language \"" \o name \o "\" not found.") ]_vars

\* German has been set while voice output was disabled
C17_Witness ==
    /\ call = [tool |-> "voice_control", input |-> "set_language: DE German "]
    /\ voice_config.current_language = "DE German"
    /\ voice_config.selected_voice = "Hans"
    /\ ~voice_config.enabled

\* positions of the languages that list the voice
Owners(voice) ==
    {i \in 1..Len(available_voices) :
        voice \in Elements(available_voices[i].male) \cup Elements(available_voices[i].female)}

\* C18: set_voice with an id some language lists sets selected_voice to it
\* and current_language to the first such language; with an id no language
\* lists it reports not found and changes nothing
C18_SetVoice ==
    [][ Voices("set_voice:")
        => LET id == Argument(call'.input)
           IN  IF Owners(id) # {}
               THEN LET first == CHOOSE i \in Owners(id) : \A j \in Owners(id) : i <= j
                    IN  /\ voice_config' = [voice_config EXCEPT
                                               !.selected_voice = id,
                                               !.current_language = available_voices[first].language]
                        /\ ret'.value = "Voice set to " \o id \o " ("
                               \o available_voices[first].language \o ")."
               ELSE /\ voice_config' = voice_config
                    /\ StartsWith(ret'.value, "Voice \"" \o id \o "\" not found.") ]_vars

\* a female voice of another language has been set
C18_Witness ==
    /\ call = [tool |-> "voice_control", input |-> "Set_Voice:Kajal"]
    /\ voice_config.selected_voice = "Kajal"
    /\ voice_config.current_language = "IN Hindi"
    /\ ret.value = "Voice set to Kajal (IN Hindi)."

\* the last of the workflow's messages
LastMessage == messages[Len(messages)]

\* the sleeps the retry policy prescribes after n failures: 1 s after the
\* first, 2 s after the second, none after the third
PrescribedSleeps(n) == SubSeq(<<1, 2>>, 1, IF n < 2 THEN n ELSE 2)

\* C19: call_model invokes the model at most 3 times, returns the response
\* of the first attempt that succeeds and attempts nothing after it, sleeps
\* 1 s after the first failure and 2 s after the second, returns the fixed
\* message after the third failure without another sleep, and always returns
C19_CallModel ==
    /\ [](node = "agent" =>
            /\ invocations <= 3
            /\ retry_count <= 3
            /\ sleeps = PrescribedSleeps(retry_count)
            /\ pc = "loop" => retry_count < 3
            /\ pc = "returned" =>
                  IF retry_count = 3
                  THEN LastMessage.type = "ai"
                       /\ LastMessage.tool_calls = 0
                       /\ LastMessage.content =
                             "I'm having trouble connecting to my AI service right now. "
                                 \o "Please check your API keys or try again later. "
                                 \o "If this problem persists, please contact support."
                  ELSE LastMessage.type = "ai" /\ LastMessage.content = "response")
    /\ [][ /\ pc = "loop" /\ pc' = "returned" /\ retry_count' = retry_count
              => invocations' = invocations + 1 /\ messages' = Append(messages, LastMessage')
           /\ pc = "returned" => pc' = "idle" /\ invocations' = invocations /\ sleeps' = sleeps
                                 /\ messages' = messages ]_vars
    /\ (pc = "loop" ~> pc = "returned")

\* three attempts have failed in the model and the fixed message is returned
C19_Witness ==
    /\ pc = "returned"
    /\ retry_count = 3
    /\ invocations = 3
    /\ sleeps = <<1, 2>>
    /\ LastMessage = FallbackMessage

\* the responses of the agent among the first n messages
AgentMessages(n) == {i \in 1..n : messages[i].type = "ai"}

\* C20: the run starts at the agent; after an agent step it goes to the
\* tools if the last message has tool calls and ends otherwise; the tools
\* hand back to the agent; so the run ends at the first agent message
\* without tool calls, and the fallback message ends it
C20_Workflow ==
    /\ [][ /\ node = "start" => node' = "agent"
           /\ node = "agent" /\ node' # "agent"
                 => /\ pc = "returned"
                    /\ node' = IF LastMessage.type = "ai" /\ LastMessage.tool_calls > 0
                               THEN "tools" ELSE "end"
           /\ node = "agent" /\ pc = "returned" => node' # "agent"
           /\ node = "agent" /\ pc = "returned" /\ LastMessage.content = FallbackMessage.content
                 => node' = "end"
           /\ node = "tools" => node' = "agent"
           /\ node = "end" => node' = "end" ]_vars
    /\ [](node = "end" =>
            /\ LastMessage.type = "ai"
            /\ LastMessage.tool_calls = 0
            /\ \A i \in AgentMessages(Len(messages) - 1) : messages[i].tool_calls > 0)
    /\ [](node # "end" /\ pc # "returned" =>
            \A i \in AgentMessages(Len(messages)) : messages[i].tool_calls > 0)

\* the run has ended at the second response, after the tools ran two calls
C20_Witness ==
    /\ node = "end"
    /\ agent_steps = 2
    /\ messages = <<HumanMessage, Response(2), ToolMessage, ToolMessage, Response(0)>>

\* the step is a run of the script in which no button stops it early
ScriptRuns == call'.tool = "script_run" /\ now' = now

\* C21: a script run that begins more than 1800 seconds after last_activity
\* deletes messages, thread_id, current_document and current_page from the
\* session state and triggers a rerun
C21_IdleRestart ==
    [][ /\ ScriptRuns
        /\ HasKey(session_state, "last_activity")
        /\ now - session_state.last_activity > idle_threshold
        => /\ rerun'
           /\ \A key \in Elements(RestartKeys) : ~ HasKey(session_state', key) ]_vars

\* the step is a render of the Voice tab in which the user has changed
\* none of its widgets
RendersLeftAlone ==
    /\ call'.tool = "sidebar_voice_tab"
    /\ voice_config' = VoiceTabLeftAlone(voice_config)

\* C22: a script run in which the user changes none of the Voice tab's
\* widgets, the radio showing "Male", leaves the selected voice and the
\* current language as they were
C22_RenderKeepsVoice ==
    [][ RendersLeftAlone
        => /\ voice_config'.selected_voice = voice_config.selected_voice
           /\ voice_config'.current_language = voice_config.current_language ]_vars

\* the step is a script run with a chat turn
ChatTurns == ScriptRuns /\ call'.input # ""

\* the chat history a script run starts its chat turn with
PriorHistory ==
    IF HasKey(session_state, "messages") THEN session_state.messages ELSE <<WelcomeMessage>>

\* C23: the message list a chat turn hands to the workflow is the system
\* message, then the prior chat history without the welcome message, then
\* the new prompt, which is in the list once, as its last element
C23_HandedMessages ==
    [][ ChatTurns
        => handed' = <<SystemMessage(session_state'.teaching_mode)>>
                         \o History(PriorHistory)
                         \o <<Message("human", call'.input, 0)>> ]_vars

====
